---------------------------- MODULE Spec2Model ----------------------------
(***************************************************************************)
(* Letter Boxed word filter (filter.py) and two-word pair finder           *)
(* (filter_pairs.py).                                                      *)
(*                                                                         *)
(* A character is a one-element string; the few non-ASCII characters the   *)
(* model needs carry a name ("e_acute" is U+00E9, "E_ACUTE" is U+00C9,     *)
(* "KELVIN" is U+212A, the Kelvin sign).  A Python str (a word, a line, a  *)
(* whole text file) is a sequence of characters.                           *)
(***************************************************************************)
EXTENDS Integers, Sequences, FiniteSets, TLC

(***************************************************************************)
(* Bounds of the model.                                                    *)
(***************************************************************************)
\* longest line of the exhaustively enumerated single-line word lists
MaxLen == 4
\* largest --min-length argument
MaxMinLength == 4
\* most lines of a word list built from WordPool
MaxWords == 2
\* most words of a list handed directly to find_pairs
MaxPairWords == 3

(***************************************************************************)
(* Characters: what Python's str methods and the re module do with them.   *)
(***************************************************************************)
LowerAZ == <<"a","b","c","d","e","f","g","h","i","j","k","l","m",
             "n","o","p","q","r","s","t","u","v","w","x","y","z">>
UpperAZ == <<"A","B","C","D","E","F","G","H","I","J","K","L","M",
             "N","O","P","Q","R","S","T","U","V","W","X","Y","Z">>

Range(s) == {s[i] : i \in 1..Len(s)}

NL == "\n"
Chars == Range(LowerAZ) \cup Range(UpperAZ)
           \cup {"e_acute", "E_ACUTE", "KELVIN", "-", "'", " ", NL}

IndexIn(s, c) == CHOOSE i \in 1..Len(s) : s[i] = c

\* ord(c): the code point, which orders strings in list.sort
OrdTable == [c \in Chars |->
               IF c \in Range(LowerAZ) THEN 96 + IndexIn(LowerAZ, c)
               ELSE IF c \in Range(UpperAZ) THEN 64 + IndexIn(UpperAZ, c)
               ELSE CASE c = "e_acute" -> 233
                      [] c = "E_ACUTE" -> 201
                      [] c = "KELVIN"  -> 8490
                      [] c = "-"       -> 45
                      [] c = "'"       -> 39
                      [] c = " "       -> 32
                      [] c = NL        -> 10]
Ord(c) == OrdTable[c]

\* ch.lower() for one character (str.lower maps U+212A to "k")
LowerTable == [c \in Chars |->
                 IF c \in Range(UpperAZ) THEN LowerAZ[IndexIn(UpperAZ, c)]
                 ELSE CASE c = "E_ACUTE" -> "e_acute"
                        [] c = "KELVIN"  -> "k"
                        [] OTHER         -> c]
ChLower(c) == LowerTable[c]

\* s.lower() for a string of these characters
StrLower(s) == [i \in 1..Len(s) |-> ChLower(s[i])]

\* ch.isalpha(): Unicode letters
ChIsAlpha(c) == c \in Range(LowerAZ) \cup Range(UpperAZ)
                        \cup {"e_acute", "E_ACUTE", "KELVIN"}

\* w.isalpha(): nonempty and every character a letter
StrIsAlpha(w) == Len(w) > 0 /\ \A i \in 1..Len(w) : ChIsAlpha(w[i])

\* ch.isspace() for the characters str.strip() removes
ChIsSpace(c) == c \in {" ", NL}

\* ALPHA_RE.fullmatch(ch): the class [A-Za-z], no flags
AlphaReFullmatch(c) == c \in Range(LowerAZ) \cup Range(UpperAZ)

RECURSIVE LStrip(_)
LStrip(s) == IF s # <<>> /\ ChIsSpace(Head(s)) THEN LStrip(Tail(s)) ELSE s

RECURSIVE RStrip(_)
RStrip(s) == IF s # <<>> /\ ChIsSpace(s[Len(s)])
             THEN RStrip(SubSeq(s, 1, Len(s) - 1)) ELSE s

\* line.strip()
Strip(s) == RStrip(LStrip(s))

\* iterating a text file: the lines, split at "\n" (a final line needs none)
RECURSIVE FileLines(_)
FileLines(text) ==
  IF text = <<>> THEN <<>>
  ELSE IF \E i \in 1..Len(text) : text[i] = NL
       THEN LET k == CHOOSE i \in 1..Len(text) :
                       text[i] = NL /\ \A j \in 1..(i - 1) : text[j] # NL
            IN  <<SubSeq(text, 1, k - 1)>> \o FileLines(SubSeq(text, k + 1, Len(text)))
       ELSE <<text>>

\* sep.join(items)
RECURSIVE Join(_, _)
Join(sep, items) ==
  IF items = <<>> THEN <<>>
  ELSE IF Len(items) = 1 THEN items[1]
  ELSE items[1] \o sep \o Join(sep, Tail(items))

\* Python's < on str: lexicographic by code point
RECURSIVE StrLess(_, _)
StrLess(x, y) ==
  IF y = <<>> THEN FALSE
  ELSE IF x = <<>> THEN TRUE
  ELSE IF Ord(Head(x)) # Ord(Head(y)) THEN Ord(Head(x)) < Ord(Head(y))
  ELSE StrLess(Tail(x), Tail(y))


\* list.sort(key=...): stable and ascending; less[i][j] tells whether the
\* key of s[i] is below the key of s[j]
StableSort(s, less) ==
  LET rank(i) == 1 + Cardinality({j \in 1..Len(s) :
                        less[j][i] \/ (~less[i][j] /\ j < i)})
  IN  [p \in 1..Len(s) |-> s[CHOOSE i \in 1..Len(s) : rank(i) = p]]

(***************************************************************************)
(* filter.py: the pure functions.                                          *)
(***************************************************************************)
\* filter.normalize_letters: keeps what ALPHA_RE matches, lowercased
normalize_letters(s) == StrLower(SelectSeq(s, AlphaReFullmatch))

\* variant: only a string that is too short raises
split_sides_raises_short(twelve) == Len(twelve) < 12

\* split_sides raises ValueError unless len(twelve) = 12
split_sides_raises(twelve) == Len(twelve) # 12

\* the len(twelve) the ValueError message reports
split_sides_got(twelve) == Len(twelve)

\* split_sides: the four returned slices
split_sides(twelve) ==
  <<SubSeq(twelve, 1, 3), SubSeq(twelve, 4, 6),
    SubSeq(twelve, 7, 9), SubSeq(twelve, 10, 12)>>

\* a compiled pattern: the character classes (as the sets of their members)
\* and the flag
NoRegex == [norm_sides |-> <<>>, allowed |-> {}, ignorecase |-> FALSE]

\* variant: each letter belongs to the first side that holds it only
build_regex_first_side(sds, case_insensitive) ==
  LET earlier(i) == UNION {Range(StrLower(sds[k])) : k \in 1..(i - 1)}
      norm_sides == [i \in 1..Len(sds) |-> Range(StrLower(sds[i])) \ earlier(i)]
  IN  [norm_sides |-> norm_sides,
       allowed    |-> UNION {norm_sides[i] : i \in 1..Len(sds)},
       ignorecase |-> case_insensitive]

build_letterboxed_regex(sds, case_insensitive) ==
  LET norm_sides == [i \in 1..Len(sds) |-> Range(StrLower(sds[i]))]
  IN  [norm_sides |-> norm_sides,
       allowed    |-> UNION {norm_sides[i] : i \in 1..Len(sds)},
       ignorecase |-> case_insensitive]

\* variant: the flag is ignored, the character itself must be a member
ClassMatchesExactly(c, members, ignorecase) == c \in members

\* a character against a character class [members], under the pattern's flag:
\* re.IGNORECASE compares the lowercased character
ClassMatches(c, members, ignorecase) ==
  \/ c \in members
  \/ ignorecase /\ ChLower(c) \in members

\* a character against the class [a-z] of the no_double group
AzMatches(c, ignorecase) == ClassMatches(c, Range(LowerAZ), ignorecase)

\* the backreference \1 against the character the group captured
BackrefMatches(c, captured, ignorecase) ==
  \/ c = captured
  \/ ignorecase /\ ChLower(c) = ChLower(captured)

\* (?!.*([a-z])\1) fails: some character of [a-z] is followed by itself
HasDouble(r, w) ==
  \E i \in 1..(Len(w) - 1) :
     /\ AzMatches(w[i], r.ignorecase)
     /\ BackrefMatches(w[i + 1], w[i], r.ignorecase)

\* (?!.*[edge]{2}) fails for some edge: two adjacent characters of one class
HasSameEdge(r, w) ==
  \E e \in 1..Len(r.norm_sides) :
     \E i \in 1..(Len(w) - 1) :
        /\ ClassMatches(w[i], r.norm_sides[e], r.ignorecase)
        /\ ClassMatches(w[i + 1], r.norm_sides[e], r.ignorecase)

\* allowed_cls{3,} spans the whole word
AllowedBody(r, w) ==
  /\ Len(w) >= 3
  /\ \A i \in 1..Len(w) : ClassMatches(w[i], r.allowed, r.ignorecase)

\* variant: the pattern without the edge lookaheads
fullmatch_without_edges(r, w) == ~HasDouble(r, w) /\ AllowedBody(r, w)

\* rx.fullmatch(w) is not None
fullmatch(r, w) == ~HasDouble(r, w) /\ ~HasSameEdge(r, w) /\ AllowedBody(r, w)

\* the pre-checks of main's loop: the length, then the letters, then isalpha
PreChecks(w, minlen, allowed) ==
  /\ ~(Len(w) < minlen)
  /\ \A i \in 1..Len(w) : ChIsAlpha(w[i]) => ChLower(w[i]) \in allowed
  /\ StrIsAlpha(w)

\* one word of main's loop: whether it is appended to valid
Keeps(w, minlen, allowed, r) ==
  w # <<>> /\ PreChecks(w, minlen, allowed) /\ fullmatch(r, w)

\* the sort keys of main: (-len(x), x.lower()) and x.lower()
LengthKeyLess(x, y) ==
  \/ Len(x) > Len(y)
  \/ Len(x) = Len(y) /\ StrLess(StrLower(x), StrLower(y))

AlphaKeyLess(x, y) == StrLess(StrLower(x), StrLower(y))

\* variant: equal keys come out in reverse order
SortValidReversingTies(v, how) ==
  LET rev == [i \in 1..Len(v) |-> v[Len(v) + 1 - i]]
  IN  StableSort(rev, [i \in 1..Len(rev) |-> [j \in 1..Len(rev) |->
                         IF how = "length" THEN LengthKeyLess(rev[i], rev[j])
                         ELSE AlphaKeyLess(rev[i], rev[j])]])

SortValid(v, how) ==
  StableSort(v, [i \in 1..Len(v) |-> [j \in 1..Len(v) |->
                    IF how = "length" THEN LengthKeyLess(v[i], v[j])
                    ELSE AlphaKeyLess(v[i], v[j])]])

\* what write_text leaves in the file: the text and a final newline, if any
WrittenText(out_text) == IF out_text # <<>> THEN out_text \o <<NL>> ELSE out_text

(***************************************************************************)
(* filter_pairs.py: the pure functions.                                    *)
(***************************************************************************)
\* filter_pairs.normalize_letters: keeps what str.isalpha accepts, lowercased
pairs_normalize_letters(s) == StrLower(SelectSeq(s, ChIsAlpha))

pairs_split_sides_raises(twelve) == Len(twelve) # 12

pairs_split_sides_got(twelve) == Len(twelve)

pairs_split_sides(twelve) ==
  <<SubSeq(twelve, 1, 3), SubSeq(twelve, 4, 6),
    SubSeq(twelve, 7, 9), SubSeq(twelve, 10, 12)>>

\* load_words keeps a line: stripped, it is nonempty and alphabetic
LoadKeeps(w) == w # <<>> /\ StrIsAlpha(w)

\* variant: the kept lines as they are, not lowercased
pairs_load_words_as_is(text) ==
  LET stripped == [i \in 1..Len(FileLines(text)) |-> Strip(FileLines(text)[i])]
  IN  SelectSeq(stripped, LoadKeeps)

\* filter_pairs.load_words: the kept lines, lowercased
pairs_load_words(text) ==
  LET stripped == [i \in 1..Len(FileLines(text)) |-> Strip(FileLines(text)[i])]
      kept     == SelectSeq(stripped, LoadKeeps)
  IN  [i \in 1..Len(kept) |-> StrLower(kept[i])]

\* variant: the length is checked, the letters are not
SanityFilterLengthOnly(ws, lset) ==
  LET Sane(w) == Len(w) >= 3
  IN  SelectSeq(ws, Sane)

\* main's sanity filter over the loaded words
SanityFilter(ws, lset) ==
  LET Sane(w) == Range(w) \subseteq lset /\ Len(w) >= 3
  IN  SelectSeq(ws, Sane)

\* by_start: each first letter to the words starting with it, in list order
ByStart(ws) ==
  [c \in {ws[i][1] : i \in 1..Len(ws)} |->
     LET StartsWith(w) == w[1] = c IN SelectSeq(ws, StartsWith)]

\* by_start.get(a_end, ())
Candidates(by_start, a_end) ==
  IF a_end \in DOMAIN by_start THEN by_start[a_end] ELSE <<>>

\* the coverage test of the inner loop
Covers(a, b, lset) == lset \subseteq (Range(a) \cup Range(b))

\* variant: a word is never paired with an equal word
PairsOfOtherWords(a, by_start, lset) ==
  LET Accepts(b) == Covers(a, b, lset) /\ b # a
      bs == SelectSeq(Candidates(by_start, a[Len(a)]), Accepts)
  IN  [j \in 1..Len(bs) |-> <<a, bs[j]>>]

\* the inner loop for one a: the pairs it appends
PairsOf(a, by_start, lset) ==
  LET Accepts(b) == Covers(a, b, lset)
      bs == SelectSeq(Candidates(by_start, a[Len(a)]), Accepts)
  IN  [j \in 1..Len(bs) |-> <<a, bs[j]>>]

\* the outer loop from the i-th word on
RECURSIVE FindFrom(_, _, _, _)
FindFrom(ws, i, by_start, lset) ==
  IF i > Len(ws) THEN <<>>
  ELSE PairsOf(ws[i], by_start, lset) \o FindFrom(ws, i + 1, by_start, lset)

find_pairs(ws, lset) == FindFrom(ws, 1, ByStart(ws), lset)

\* the sort keys of main: (-(len(a) + len(b)), a, b) and (a, b)
PairAlphaLess(x, y) ==
  \/ StrLess(x[1], y[1])
  \/ x[1] = y[1] /\ StrLess(x[2], y[2])

CombinedLenLess(x, y) ==
  \/ Len(x[1]) + Len(x[2]) > Len(y[1]) + Len(y[2])
  \/ Len(x[1]) + Len(x[2]) = Len(y[1]) + Len(y[2]) /\ PairAlphaLess(x, y)

SortPairs(ps, how) ==
  StableSort(ps, [i \in 1..Len(ps) |-> [j \in 1..Len(ps) |->
                     IF how = "combined_len" THEN CombinedLenLess(ps[i], ps[j])
                     ELSE PairAlphaLess(ps[i], ps[j])]])

\* out_lines: "a b" for each pair
OutLines(ps) == [i \in 1..Len(ps) |-> ps[i][1] \o <<" ">> \o ps[i][2]]

(***************************************************************************)
(* The state of a run: the arguments argparse returned, the locals of      *)
(* main, the streams and the output file.                                  *)
(***************************************************************************)
VARIABLES
  prog,            \* the script that runs: "filter" or "pairs"
  stage,           \* 1: on a given word list; 2: on the filter's output file
  pc,              \* the position in main
  letters,         \* args.letters
  min_length,      \* args.min_length (filter.py)
  case_sensitive,  \* args.case_sensitive (filter.py)
  sort,            \* args.sort
  to_file,         \* whether args.output is set
  wordlist,        \* the text of the file args.wordlist names
  opened,          \* whether the word list has been opened
  letters_norm, sides, rx, allowed_set, letters_set,
  lines,           \* the lines the loop of filter.main has still to read
  valid,           \* filter.main's list of kept words
  words, pairs,    \* filter_pairs.main's word list and pairs
  stdout, stderr,  \* what was printed, in order
  outfile,         \* the file args.output names
  returned         \* <<>> while main runs, then <<its return value>>

vars == <<prog, stage, pc, letters, min_length, case_sensitive, sort, to_file,
          wordlist, opened, letters_norm, sides, rx, allowed_set, letters_set,
          lines, valid, words, pairs, stdout, stderr, outfile, returned>>

args == <<letters, min_length, case_sensitive, sort, to_file>>
filter_locals == <<rx, allowed_set, lines, valid>>
pairs_locals == <<letters_set, words, pairs>>

Msg(kind, n, text) == [kind |-> kind, n |-> n, text |-> text]
NoFile == [exists |-> FALSE, text |-> <<>>]
File(text) == [exists |-> TRUE, text |-> text]

\* a process as it starts: nothing read, computed, printed or written
Fresh ==
  /\ pc = "start"
  /\ opened = FALSE
  /\ letters_norm = <<>> /\ sides = <<>>
  /\ rx = NoRegex /\ allowed_set = {} /\ letters_set = {}
  /\ lines = <<>> /\ valid = <<>> /\ words = <<>> /\ pairs = <<>>
  /\ stdout = <<>> /\ stderr = <<>>
  /\ outfile = NoFile
  /\ returned = <<>>

(***************************************************************************)
(* filter.main                                                             *)
(***************************************************************************)
\* split_sides raises: the message goes to stderr and main returns 2
FilterInputError ==
  /\ prog = "filter" /\ pc = "start"
  /\ split_sides_raises(normalize_letters(letters))
  /\ letters_norm' = normalize_letters(letters)
  /\ stderr' = Append(stderr,
                 Msg("Input error", split_sides_got(letters_norm'), <<>>))
  /\ returned' = <<2>>
  /\ pc' = "exit"
  /\ UNCHANGED <<prog, stage, args, wordlist, opened, sides, filter_locals,
                 pairs_locals, stdout, outfile>>

\* the square, the advisory, the pattern, the allowed set; the loop begins
FilterSetup ==
  /\ prog = "filter" /\ pc = "start"
  /\ ~split_sides_raises(normalize_letters(letters))
  /\ letters_norm' = normalize_letters(letters)
  /\ sides' = split_sides(letters_norm')
  /\ stderr' = IF Cardinality(Range(letters_norm')) # 12
               THEN Append(stderr, Msg("Note: duplicates", 0, <<>>))
               ELSE stderr
  /\ rx' = build_letterboxed_regex(sides', ~case_sensitive)
  /\ allowed_set' = Range(Join(<<>>, sides'))
  /\ opened' = TRUE
  /\ lines' = FileLines(wordlist)
  /\ pc' = "loop"
  /\ UNCHANGED <<prog, stage, args, wordlist, valid, pairs_locals, stdout,
                 outfile, returned>>

\* one line of the word list
FilterWord ==
  /\ prog = "filter" /\ pc = "loop" /\ lines # <<>>
  /\ LET w == Strip(Head(lines))
     IN  valid' = IF Keeps(w, min_length, allowed_set, rx)
                  THEN Append(valid, w) ELSE valid
  /\ lines' = Tail(lines)
  /\ UNCHANGED <<prog, stage, pc, args, wordlist, opened, letters_norm, sides,
                 rx, allowed_set, pairs_locals, stdout, stderr, outfile,
                 returned>>

\* the list is exhausted: sort, print, write the file, return 0
FilterOutput ==
  /\ prog = "filter" /\ pc = "loop" /\ lines = <<>>
  /\ valid' = SortValid(valid, sort)
  /\ LET out_text == Join(<<NL>>, valid')
     IN  /\ stdout' = Append(stdout, Msg("text", 0, out_text))
         /\ outfile' = IF to_file THEN File(WrittenText(out_text)) ELSE outfile
  /\ stderr' = IF to_file THEN Append(stderr, Msg("Wrote", Len(valid'), <<>>))
               ELSE stderr
  /\ returned' = <<0>>
  /\ pc' = "exit"
  /\ UNCHANGED <<prog, stage, args, wordlist, opened, letters_norm, sides, rx,
                 allowed_set, lines, pairs_locals>>

(***************************************************************************)
(* filter_pairs.main                                                       *)
(***************************************************************************)
\* split_sides raises: the message is printed and main returns 2
PairsInputError ==
  /\ prog = "pairs" /\ pc = "start"
  /\ pairs_split_sides_raises(pairs_normalize_letters(letters))
  /\ letters_norm' = pairs_normalize_letters(letters)
  /\ stdout' = Append(stdout,
                 Msg("Input error", pairs_split_sides_got(letters_norm'), <<>>))
  /\ returned' = <<2>>
  /\ pc' = "exit"
  /\ UNCHANGED <<prog, stage, args, wordlist, opened, sides, filter_locals,
                 pairs_locals, stderr, outfile>>

\* the square, the letter set, load_words
PairsLoad ==
  /\ prog = "pairs" /\ pc = "start"
  /\ ~pairs_split_sides_raises(pairs_normalize_letters(letters))
  /\ letters_norm' = pairs_normalize_letters(letters)
  /\ sides' = pairs_split_sides(letters_norm')
  /\ letters_set' = Range(Join(<<>>, sides'))
  /\ opened' = TRUE
  /\ words' = pairs_load_words(wordlist)
  /\ pc' = "sanity"
  /\ UNCHANGED <<prog, stage, args, wordlist, filter_locals, pairs, stdout,
                 stderr, outfile, returned>>

\* the sanity filter
PairsSanity ==
  /\ prog = "pairs" /\ pc = "sanity"
  /\ words' = SanityFilter(words, letters_set)
  /\ pc' = "find"
  /\ UNCHANGED <<prog, stage, args, wordlist, opened, letters_norm, sides,
                 filter_locals, letters_set, pairs, stdout, stderr, outfile,
                 returned>>

\* pairs = find_pairs(words, letters_set)
PairsFind ==
  /\ prog = "pairs" /\ pc = "find"
  /\ pairs' = find_pairs(words, letters_set)
  /\ pc' = "output"
  /\ UNCHANGED <<prog, stage, args, wordlist, opened, letters_norm, sides,
                 filter_locals, letters_set, words, stdout, stderr, outfile,
                 returned>>

\* sort, then write the file or print, return 0
PairsOutput ==
  /\ prog = "pairs" /\ pc = "output"
  /\ pairs' = SortPairs(pairs, sort)
  /\ LET out_text == Join(<<NL>>, OutLines(pairs'))
     IN  IF to_file
         THEN /\ outfile' = File(WrittenText(out_text))
              /\ stdout' = Append(stdout, Msg("Wrote", Len(pairs'), <<>>))
         ELSE /\ outfile' = outfile
              /\ stdout' = Append(stdout, Msg("text", 0, out_text))
  /\ returned' = <<0>>
  /\ pc' = "exit"
  /\ UNCHANGED <<prog, stage, args, wordlist, opened, letters_norm, sides,
                 filter_locals, letters_set, words, stderr>>

(***************************************************************************)
(* The pipeline: the file the filter wrote is the next run's word list.    *)
(***************************************************************************)
FilterSucceeded ==
  prog = "filter" /\ stage = 1 /\ pc = "exit" /\ returned = <<0>> /\ outfile.exists

\* filter.py again, with the same arguments, on its own output
RunFilterAgain ==
  /\ FilterSucceeded
  /\ stage' = 2
  /\ wordlist' = outfile.text
  /\ pc' = "start" /\ opened' = FALSE
  /\ letters_norm' = <<>> /\ sides' = <<>>
  /\ rx' = NoRegex /\ allowed_set' = {}
  /\ lines' = <<>> /\ valid' = <<>>
  /\ stdout' = <<>> /\ stderr' = <<>> /\ outfile' = NoFile /\ returned' = <<>>
  /\ UNCHANGED <<prog, args, pairs_locals>>

\* filter_pairs.py, with the same LETTERS, on the filter's output
RunPairs ==
  /\ FilterSucceeded
  /\ prog' = "pairs"
  /\ stage' = 2
  /\ wordlist' = outfile.text
  /\ sort' \in {"combined_len", "alpha"}
  /\ to_file' \in BOOLEAN
  /\ pc' = "start" /\ opened' = FALSE
  /\ letters_norm' = <<>> /\ sides' = <<>>
  /\ stdout' = <<>> /\ stderr' = <<>> /\ outfile' = NoFile /\ returned' = <<>>
  /\ UNCHANGED <<letters, min_length, case_sensitive, filter_locals,
                 pairs_locals>>

(***************************************************************************)
(* Inputs.                                                                 *)
(***************************************************************************)
\* LETTERS arguments
LettersPlain == <<"a","b","c","-","d","e","f","-","g","h","i","-","j","k","l">>
LettersMixed == <<"A","D","G","b","e","f","C","H","I","j","k","l">>
LettersUpper == <<"A","B","C","D","E","F","G","H","I","J","K","L">>
\* "a" on two sides
LettersTwoSides == <<"a","b","c","a","d","e","f","g","h","i","j","k">>
\* "a" twice on one side and "d" on two sides
LettersRepeated == <<"a","a","b","d","e","f","g","h","d","j","k","l">>
LettersShort == <<"a","b","c">>
LettersLong == <<"a","b","c","d","e","f","g","h","i","j","k","l","m">>
\* eleven ASCII letters and U+00E9
LettersAccent == <<"a","b","c","d","e","f","g","h","i","j","k","e_acute">>
\* twelve ASCII letters and U+00C9
LettersAccentExtra == <<"a","b","c","d","e","f","g","h","i","j","k","l","E_ACUTE">>

DistinctSquares == {LettersPlain, LettersMixed}
DuplicateSquares == {LettersTwoSides, LettersRepeated}
CaseSquares == {LettersMixed, LettersUpper}
BadLetters == {LettersShort, LettersLong, LettersAccent}
AllLetters == {LettersPlain, LettersTwoSides, LettersLong, LettersAccent,
               LettersAccentExtra}

\* every string of at most MaxLen characters of A
StringsOver(A) == UNION {[1..n -> A] : n \in 0..MaxLen}

WordAlphabet == {"a", "b", "d", "A", "m", "-", "KELVIN"}
CaseAlphabet == {"a", "b", "d", "A", "B", "D", "KELVIN"}

\* lines with white space around the word, an apostrophe, a non-ASCII letter
ExtraLines == { <<" ","a","d","g"," ">>, <<"a","'","d","g">>,
                <<"a","d","e_acute">>, <<"E_ACUTE","a","d">>,
                <<"a","d","g","j","b","e","h">>, <<"a","d","a","d","a","d","d">> }

\* one-line word lists
WordFiles == StringsOver(WordAlphabet) \cup ExtraLines
CaseFiles == StringsOver(CaseAlphabet) \cup ExtraLines

\* the lines of the longer word lists
WordPool == { <<"a","d","g","j","b","e","h">>,
              <<"h","k","c","f","i","l">>,
              <<"H","k","c","f","i","l">>,
              <<"h","k","c","f","i","l","m">>,
              <<"a","d","g","j","b","e","h","k","c","f","i","l","a">>,
              <<"a","d">>,
              <<" ","a","-","d">> }

\* the texts of the word lists of at most MaxWords lines of WordPool, each
\* line ended by a newline, and the one-line lists without it
PoolFiles ==
  LET lists == UNION {[1..n -> WordPool] : n \in 0..MaxWords}
  IN  {WrittenText(Join(<<NL>>, l)) : l \in lists} \cup WordPool

PipelineMinLengths == {2, 3}

\* the words and letter sets handed directly to find_pairs
PairWordPool == { <<"a">>, <<"a","b">>, <<"b","a">>, <<"b","c">>,
                  <<"c","a","b">>, <<"a","b","a">> }
PairWordLists == UNION {[1..n -> PairWordPool] : n \in 0..MaxPairWords}
PairLetterSets == SUBSET {"a", "b", "c"}

(***************************************************************************)
(* Specifications.                                                         *)
(***************************************************************************)
\* filter.py started on a given word list
FilterStarts(LS, MLS, CSS, SORTS, FILES) ==
  /\ prog = "filter" /\ stage = 1
  /\ letters \in LS
  /\ min_length \in MLS
  /\ case_sensitive \in CSS
  /\ sort \in SORTS
  /\ to_file = TRUE
  /\ wordlist \in FILES
  /\ Fresh

\* filter_pairs.py started on a given word list
PairsStarts(LS, FILES) ==
  /\ prog = "pairs" /\ stage = 1
  /\ letters \in LS
  /\ min_length = 3 /\ case_sensitive = FALSE
  /\ sort \in {"combined_len", "alpha"}
  /\ to_file \in BOOLEAN
  /\ wordlist \in FILES
  /\ Fresh

\* find_pairs called on a word list and a letter set
FindPairsCalled ==
  /\ prog = "pairs" /\ stage = 1
  /\ letters = <<>> /\ min_length = 3 /\ case_sensitive = FALSE
  /\ sort = "combined_len" /\ to_file = FALSE
  /\ wordlist = <<>> /\ opened = FALSE
  /\ letters_norm = <<>> /\ sides = <<>>
  /\ rx = NoRegex /\ allowed_set = {}
  /\ lines = <<>> /\ valid = <<>>
  /\ stdout = <<>> /\ stderr = <<>> /\ outfile = NoFile /\ returned = <<>>
  /\ pc = "find"
  /\ words \in PairWordLists
  /\ letters_set \in PairLetterSets
  /\ pairs = <<>>

FilterNext == FilterInputError \/ FilterSetup \/ FilterWord \/ FilterOutput
PairsNext == PairsInputError \/ PairsLoad \/ PairsSanity \/ PairsFind \/ PairsOutput

\* both scripts on the longer word lists, and the pipeline
Init == \/ FilterStarts(AllLetters, PipelineMinLengths, BOOLEAN,
                        {"length", "alpha"}, PoolFiles)
        \/ PairsStarts(AllLetters, PoolFiles)
Next == FilterNext \/ PairsNext \/ RunFilterAgain \/ RunPairs
Spec == Init /\ [][Next]_vars

\* the filter with its defaults, on squares of 12 distinct letters
InitDefault ==
  \/ FilterStarts(DistinctSquares, {3}, {FALSE}, {"length"}, WordFiles)
  \/ FilterStarts(BadLetters, {3}, {FALSE}, {"length"}, ExtraLines)
SpecDefault == InitDefault /\ [][FilterNext]_vars

\* the filter with --min-length
InitMinLength ==
  \/ FilterStarts({LettersPlain}, 1..MaxMinLength, {FALSE}, {"length"}, WordFiles)
  \/ FilterStarts(BadLetters, 1..MaxMinLength, {FALSE}, {"length"}, ExtraLines)
SpecMinLength == InitMinLength /\ [][FilterNext]_vars

\* the filter on squares whose letters repeat
InitDuplicates ==
  \/ FilterStarts(DuplicateSquares, {3}, {FALSE}, {"length"}, WordFiles)
  \/ FilterStarts(BadLetters, {3}, {FALSE}, {"length"}, ExtraLines)
SpecDuplicates == InitDuplicates /\ [][FilterNext]_vars

\* the filter with and without --case-sensitive
InitCase ==
  \/ FilterStarts(CaseSquares, {3}, BOOLEAN, {"length"}, CaseFiles)
  \/ FilterStarts(BadLetters, {3}, BOOLEAN, {"length"}, ExtraLines)
SpecCase == InitCase /\ [][FilterNext]_vars

\* find_pairs alone
SpecFindPairs == FindPairsCalled /\ [][PairsFind]_vars

(***************************************************************************)
(* Properties.                                                             *)
(***************************************************************************)
\* the stripped lines of the word list, and those the loop has gone through
StrippedLines == [i \in 1..Len(FileLines(wordlist)) |-> Strip(FileLines(wordlist)[i])]
Processed == SubSeq(StrippedLines, 1, Len(StrippedLines) - Len(lines))

\* the sides (by index) of the square that hold letter c
SidesOf(c) == {e \in 1..Len(sides) : c \in Range(sides[e])}
SquareLetters == UNION {Range(sides[e]) : e \in 1..Len(sides)}
DistinctSquare == Len(letters_norm) = 12 /\ Cardinality(Range(letters_norm)) = 12

\* the four conditions on a word w, read in lower case, for minimum length n
LongEnough(w, n) == Len(w) >= n
OnlySquareLetters(w) == \A i \in 1..Len(w) : ChLower(w[i]) \in SquareLetters
NoRepeat(w) == \A i \in 1..(Len(w) - 1) : ChLower(w[i]) # ChLower(w[i + 1])
NoSharedSide(w) ==
  \A i \in 1..(Len(w) - 1) : SidesOf(ChLower(w[i])) \cap SidesOf(ChLower(w[i + 1])) = {}
LetterBoxed(w, n) ==
  LongEnough(w, n) /\ OnlySquareLetters(w) /\ NoRepeat(w) /\ NoSharedSide(w)

\* C1: on a square of 12 distinct letters, with the default minimum length 3
\* and the default case-insensitive matching, the words the filter has kept
\* are exactly the lines read so far that are at least 3 long, consist only
\* of square letters, repeat no letter immediately and take no two
\* consecutive letters from one side (letters compared in lower case); a
\* line with a foreign letter, an apostrophe or a hyphen is never kept.
C1_FilterKeepsExactlyLetterBoxedWords ==
  (prog = "filter" /\ pc = "loop" /\ DistinctSquare
     /\ min_length = 3 /\ ~case_sensitive)
  => LET Ok(w) == LetterBoxed(w, 3) IN valid = SelectSeq(Processed, Ok)

\* a word of four letters, one of them upper case, has been kept
C1_Witness ==
  /\ prog = "filter" /\ pc = "loop" /\ DistinctSquare /\ lines = <<>>
  /\ min_length = 3 /\ ~case_sensitive
  /\ valid = << <<"a","d","A","d">> >>

\* C5: for every configured minimum length n >= 1, the words the filter has
\* kept are exactly the lines read so far that are at least n long and meet
\* the letter, no-repeat and no-same-side conditions.
C5_MinLengthIsConfigurable ==
  (prog = "filter" /\ pc = "loop" /\ DistinctSquare /\ ~case_sensitive)
  => LET Ok(w) == LetterBoxed(w, min_length) IN valid = SelectSeq(Processed, Ok)

\* C6: when the 12 letters are not all distinct the filter prints the
\* advisory and nothing else before the loop, goes through the whole word
\* list and returns 0; and it keeps exactly the lines at least 3 long, of
\* square letters, in which no two consecutive letters are equal or share a
\* side, a repeated letter belonging to every side it is on.
RepeatedSquare == Len(letters_norm) = 12 /\ Cardinality(Range(letters_norm)) # 12

C6_RepeatedLettersOnlyAdvise ==
  (prog = "filter" /\ RepeatedSquare /\ min_length = 3 /\ ~case_sensitive)
  => /\ pc \in {"loop", "exit"}
     /\ stderr # <<>> /\ stderr[1] = Msg("Note: duplicates", 0, <<>>)
     /\ \A i \in 1..Len(stderr) : stderr[i].kind # "Input error"
     /\ pc = "loop" =>
          LET Ok(w) == LetterBoxed(w, 3) IN valid = SelectSeq(Processed, Ok)
     /\ pc = "exit" => returned = <<0>> /\ lines = <<>> /\ opened /\ outfile.exists

\* on a square with "a" on two sides: a word through "a" is kept
C6_Witness ==
  /\ prog = "filter" /\ RepeatedSquare /\ pc = "exit" /\ returned = <<0>>
  /\ letters = LettersTwoSides
  /\ valid = << <<"b","d","b">> >>

\* the filter's verdict on a word, as main computes it from LETTERS
FilterVerdict(w, ltrs, minlen, cs) ==
  LET sds == split_sides(normalize_letters(ltrs))
  IN  Keeps(w, minlen, Range(Join(<<>>, sds)), build_letterboxed_regex(sds, ~cs))

\* C8: without --case-sensitive, the filter keeps a word exactly when it
\* keeps the lowercased word for the lowercased LETTERS, whatever the case of
\* the letters of either.
C8_CaseInsensitiveByDefault ==
  (prog = "filter" /\ pc = "loop" /\ ~case_sensitive)
  => LET Ok(w) == FilterVerdict(StrLower(w), StrLower(letters), min_length, FALSE)
     IN  valid = SelectSeq(Processed, Ok)

\* a word with upper-case letters has been kept for LETTERS in mixed case
C8_Witness ==
  /\ prog = "filter" /\ pc = "loop" /\ ~case_sensitive /\ lines = <<>>
  /\ letters = LettersMixed
  /\ valid = << <<"A","b","D","B">> >>

\* the chain rule and the coverage rule for an ordered pair of words
ChainRule(a, b) == a[Len(a)] = b[1]
CoverageRule(a, b, lset) == lset \subseteq (Range(a) \cup Range(b))

\* the index pairs (i, j) of ws that form the ordered pair (x, y) under both rules
SolutionIndexes(ws, lset, x, y) ==
  {ij \in (1..Len(ws)) \X (1..Len(ws)) :
     /\ ws[ij[1]] = x /\ ws[ij[2]] = y
     /\ ChainRule(x, y) /\ CoverageRule(x, y, lset)}

Occurrences(ps, x, y) == Cardinality({k \in 1..Len(ps) : ps[k] = <<x, y>>})

\* ps holds exactly the solutions among ws, one for each index pair
ExactlyTheSolutions(ps, ws, lset) ==
  /\ \A k \in 1..Len(ps) : ps[k][1] \in Range(ws) /\ ps[k][2] \in Range(ws)
  /\ \A x \in Range(ws) : \A y \in Range(ws) :
        Occurrences(ps, x, y) = Cardinality(SolutionIndexes(ws, lset, x, y))

\* C2: find_pairs returns exactly the ordered pairs (words[i], words[j]), one
\* for each index pair (i, j), i = j included, whose words satisfy the chain
\* rule and the coverage rule; (b, a) is returned only on its own merits and
\* an empty list gives an empty result.
C2_FindPairsExact ==
  (prog = "pairs" /\ pc = "output")
  => /\ ExactlyTheSolutions(pairs, words, letters_set)
     /\ \A k \in 1..Len(pairs) :
          (\E m \in 1..Len(pairs) : pairs[m] = <<pairs[k][2], pairs[k][1]>>)
            => ChainRule(pairs[k][2], pairs[k][1])
     /\ words = <<>> => pairs = <<>>

\* a duplicated word paired with itself: four pairs from two equal words
C2_Witness ==
  /\ prog = "pairs" /\ pc = "output"
  /\ words = << <<"a","b","a">>, <<"a","b","a">> >>
  /\ letters_set = {"a", "b"}
  /\ Len(pairs) = 4

\* C3: every pair the pair finder has found or printed uses exactly the
\* letters of the square, for any word list.
C3_PairsUseExactlyTheSquare ==
  (prog = "pairs" /\ pc \in {"output", "exit"})
  => \A k \in 1..Len(pairs) :
        Range(pairs[k][1]) \cup Range(pairs[k][2]) = Range(letters_norm)

\* a pair found in a list that was never filtered (it holds a foreign word)
C3_Witness ==
  /\ prog = "pairs" /\ stage = 1 /\ pc = "exit" /\ pairs # <<>>
  /\ \E i \in 1..Len(StrippedLines) : \E j \in 1..Len(StrippedLines[i]) :
        StrippedLines[i][j] = "m"

\* the normalized LETTERS of the running script
NormalizedLetters ==
  IF prog = "filter" THEN normalize_letters(letters)
  ELSE pairs_normalize_letters(letters)

\* what the running script printed (filter.py: to stderr) when it failed
ErrorStream == IF prog = "filter" THEN stderr ELSE stdout
OtherStream == IF prog = "filter" THEN stdout ELSE stderr

\* C4: either script fails exactly when the normalized LETTERS are not 12
\* characters: it then reports that length, has no sides, returns 2, and has
\* neither opened the word list nor printed or written anything else; with
\* 12 characters the sides are the four consecutive triples.
C4_SquareFailsIffNot12 ==
  pc # "start"
  => /\ (pc = "exit" /\ returned = <<2>>) <=> Len(NormalizedLetters) # 12
     /\ Len(NormalizedLetters) # 12 =>
          /\ ErrorStream = <<Msg("Input error", Len(NormalizedLetters), <<>>)>>
          /\ OtherStream = <<>>
          /\ sides = <<>>
          /\ ~opened /\ outfile = NoFile
          /\ prog = "filter" => lines = <<>> /\ valid = <<>>
          /\ prog = "pairs" => words = <<>> /\ pairs = <<>>
     /\ Len(NormalizedLetters) = 12 =>
          /\ Len(sides) = 4
          /\ \A e \in 1..4 : Len(sides[e]) = 3
          /\ sides[1] \o sides[2] \o sides[3] \o sides[4] = NormalizedLetters

\* the pair finder has rejected 13 letters
C4_Witness ==
  /\ prog = "pairs" /\ pc = "exit" /\ returned = <<2>>
  /\ stdout = <<Msg("Input error", 13, <<>>)>>
  /\ wordlist # <<>>

\* C7: the filter run on its own output, with the same arguments, writes the
\* same file again and keeps the same words in the same order.
C7_FilterIdempotent ==
  (prog = "filter" /\ stage = 2 /\ pc = "exit")
  => /\ returned = <<0>>
     /\ outfile = File(wordlist)
     /\ valid = FileLines(wordlist)

\* the second run has kept two words that differ only in case
C7_Witness ==
  /\ prog = "filter" /\ stage = 2 /\ pc = "exit"
  /\ Len(valid) = 2 /\ valid[1] # valid[2] /\ StrLower(valid[1]) = StrLower(valid[2])

\* C9: both scripts normalize every LETTERS argument to the same string.
C9_SameNormalization ==
  normalize_letters(letters) = pairs_normalize_letters(letters)

\* C10: when the pair finder runs on the filter's output and derives the
\* square the filter derived, its words are the filter's kept words,
\* lowercased, and the pairs it returns are exactly the ordered pairs of
\* those words that satisfy the chain rule and the coverage rule.
SameSquare == pairs_normalize_letters(letters) = normalize_letters(letters)

C10_PipelineLosesNothing ==
  (prog = "pairs" /\ stage = 2 /\ SameSquare)
  => /\ pc \in {"find", "output", "exit"} =>
          words = [i \in 1..Len(valid) |-> StrLower(valid[i])]
     /\ pc \in {"output", "exit"} =>
          ExactlyTheSolutions(pairs, [i \in 1..Len(valid) |-> StrLower(valid[i])],
                              Range(normalize_letters(letters)))

\* the filter kept a word with an upper-case letter and the pair finder
\* found pairs with it
C10_Witness ==
  /\ prog = "pairs" /\ stage = 2 /\ pc = "exit" /\ SameSquare
  /\ \E i \in 1..Len(valid) : valid[i] # StrLower(valid[i])
  /\ pairs # <<>>

============================================================================
